---- MODULE Spec2Model ----
(***************************************************************************)
(* Model of the quotes scraper (crawl - extract - dedupe - link - persist) *)
(* in its five variants: main.py, main_asincio.py, main_asincio_motor.py,  *)
(* main_oop.py and main_oop_asincio.py.                                    *)
(*                                                                         *)
(* Strings are sequences of one-character strings, so that concatenation   *)
(* (base_link + link) is \o and str.strip() is an operator on them.  An    *)
(* optional value (None or a value) is a sequence of length 0 or 1.        *)
(***************************************************************************)
EXTENDS Integers, Sequences, FiniteSets, TLC

VARIABLES
    variant,        \* which of the five scripts runs
    site,           \* the web site: listing pages and author profile pages
    db,             \* the document store: [authors, quotes]
    run,            \* number of the current run of the script against db
    pc,             \* the statement of main the run is at
    links,          \* get_pages: links
    link_to_parse,  \* get_pages: link_to_parse (<<>> is None)
    pages,          \* main: pages
    author_links,   \* get_authors_info: author_links / main: author_links
    authors_info,   \* parse_authors: author_list / main: authors_info
    quotes_info,    \* parse_quotes: quotes_list / main: quotes_info
    authors_json,   \* contents of authors.json
    quotes_json,    \* contents of quotes.json
    authors_data,   \* main: authors_data
    quotes_data,    \* main: quotes_data
    i,              \* index of the running for loop
    arrived,        \* asyncio.gather: task indices in order of completion
    failAt,         \* which request of the run fails in transport (0: none)
    fetchLog,       \* history: the URLs requested so far in this run
    before          \* history: db as it was when this run started

vars == <<variant, site, failAt, db, run, pc, links, link_to_parse, pages,
          author_links, authors_info, quotes_info, authors_json, quotes_json,
          authors_data, quotes_data, i, arrived, fetchLog, before>>

----------------------------------------------------------------------------
(* Bounds *)

MaxRuns == 2      \* runs of the script against the same store
MaxLinks == 4     \* get_pages stops being followed when links is this long
MaxFail == 11     \* the latest request of a run that may fail

----------------------------------------------------------------------------
(* The five scripts *)

Variants == {"main", "main_asincio", "main_asincio_motor", "main_oop",
             "main_oop_asincio"}

\* BASE_URL
Base == <<"seed">>

----------------------------------------------------------------------------
(* Strings *)

RECURSIVE LStrip(_)
LStrip(s) == IF s # <<>> /\ Head(s) = " " THEN LStrip(Tail(s)) ELSE s

RECURSIVE RStrip(_)
RStrip(s) ==
    IF s # <<>> /\ s[Len(s)] = " " THEN RStrip(SubSeq(s, 1, Len(s) - 1)) ELSE s

\* str.strip()
Strip(s) == LStrip(RStrip(s))

----------------------------------------------------------------------------
(* Fetching *)

\* get_soup: the parsed document behind a URL.  A URL the site does not
\* serve yields a document with none of the expected elements (requests and
\* aiohttp do not raise on an HTTP error status).
GetSoup(url) ==
    [next    |-> IF url \in DOMAIN site.next THEN site.next[url] ELSE <<>>,
     quotes  |-> IF url \in DOMAIN site.quotes THEN site.quotes[url] ELSE <<>>,
     profile |-> IF url \in DOMAIN site.profile THEN site.profile[url] ELSE <<>>]

\* A mutant of FetchRaises: the error is swallowed and an empty document
\* parsed.
FetchRaisesNever(n) == FALSE

\* get_soup: requests.get / session.get raises on a transport error, here on
\* the n-th request of the run; nothing catches it.
FetchRaises(n) == n = failAt

\* A mutant of HasNext: a pointer to a page already listed is not followed.
HasNextUnseen(soup, seen) ==
    /\ soup.next # <<>>
    /\ \A k \in 1..Len(seen) : seen[k] # Base \o soup.next[1]

\* get_pages: if link, whatever the pages seen so far.
HasNext(soup, seen) == soup.next # <<>>

\* A mutant of NextUrl: the pointer is dropped and the seed fetched again.
NextUrlSeed(base_link, current, link) == base_link

\* A mutant of NextUrl: the pointer is appended to the page it was found on.
NextUrlAccumulated(base_link, current, link) == current \o link

\* get_pages: base_link + link, the URL appended and fetched next
\* (current is the page the pointer was read from, link_to_parse).
NextUrl(base_link, current, link) == base_link \o link

----------------------------------------------------------------------------
(* Extraction *)

\* A mutant of AuthorFound: no name is ever recognised as already listed.
AuthorNeverFound(worklist, author_name) == FALSE

\* get_authors_info: author_found
AuthorFound(worklist, author_name) ==
    \E k \in 1..Len(worklist) : worklist[k].author_name = author_name

\* get_authors_info: the inner loop over the author elements of one page,
\* from element el on.
RECURSIVE CollectAuthors(_, _, _, _)
CollectAuthors(worklist, elems, base_url, el) ==
    IF el > Len(elems)
    THEN worklist
    ELSE LET author_name == elems[el].author
             author_info_url == base_url \o elems[el].href
         IN  CollectAuthors(
                 IF AuthorFound(worklist, author_name)
                 THEN worklist
                 ELSE Append(worklist, [author_name     |-> author_name,
                                        author_info_url |-> author_info_url]),
                 elems, base_url, el + 1)

\* parse_authors: the record built from one profile document.
AuthorRecord(profile) ==
    [fullname      |-> Strip(profile.title),
     born_date     |-> Strip(profile.born_date),
     born_location |-> Strip(profile.born_location),
     description   |-> Strip(profile.description)]

\* A mutant of QuoteRecords: the tags are listed last to first.
QuoteRecordsTagsReversed(soup) ==
    [k \in 1..Len(soup.quotes) |->
        [tags   |-> [t \in 1..Len(soup.quotes[k].tags) |->
                        Strip(soup.quotes[k].tags[Len(soup.quotes[k].tags) + 1 - t])],
         author |-> soup.quotes[k].author,
         quote  |-> soup.quotes[k].quote]]

\* parse_quotes: the records built from the quote elements of one document.
QuoteRecords(soup) ==
    [k \in 1..Len(soup.quotes) |->
        [tags   |-> [t \in 1..Len(soup.quotes[k].tags) |->
                        Strip(soup.quotes[k].tags[t])],
         author |-> soup.quotes[k].author,
         quote  |-> soup.quotes[k].quote]]

\* A mutant of Gather: the results come in the order the fetches completed.
GatherAsCompleted(urls, completion) ==
    [k \in 1..Len(urls) |-> GetSoup(urls[completion[k]])]

\* asyncio.gather: the results, in the order of the awaitables passed in,
\* whatever the order of completion.
Gather(urls, completion) == [k \in 1..Len(urls) |-> GetSoup(urls[k])]

\* A mutant of AllArrived: the first result is enough to go on.
AnyArrived(done, n) == n = 0 \/ Len(done) >= 1

\* await asyncio.gather(*tasks) resumes when each of the n tasks is done.
AllArrived(done, n) == Len(done) = n

RECURSIVE Flatten(_)
Flatten(ss) == IF ss = <<>> THEN <<>> ELSE Head(ss) \o Flatten(Tail(ss))

----------------------------------------------------------------------------
(* The store *)

Min(S) == CHOOSE x \in S : \A y \in S : x <= y

\* Author.objects(fullname=...).first() / find_one({"fullname": ...}):
\* the first stored author with that fullname, <<>> when there is none.
FindAuthor(store, fullname) ==
    LET S == {k \in 1..Len(store.authors) : store.authors[k].fullname = fullname}
    IN  IF S = {} THEN <<>> ELSE <<store.authors[Min(S)]>>

\* Quote.objects(quote=...).first()
FindQuote(store, text) ==
    LET S == {k \in 1..Len(store.quotes) : store.quotes[k].quote = text}
    IN  IF S = {} THEN <<>> ELSE <<store.quotes[Min(S)]>>

\* insert_one / insert_many of the driver: the document is stored under a
\* fresh _id; the collections carry no unique index.
InsertOne(coll, doc) == Append(coll, doc @@ [id |-> Len(coll) + 1])

\* Document.save() of a new Author or Quote document (models.py): an insert.
Save(coll, doc) == Append(coll, doc @@ [id |-> Len(coll) + 1])

Motor == variant = "main_asincio_motor"

Write(coll, doc) == IF Motor THEN InsertOne(coll, doc) ELSE Save(coll, doc)

\* upload_author_data: whether the loop body writes author_data.  Only
\* main_oop_asincio looks the fullname up first.
AuthorWritten(store, author_data) ==
    IF variant = "main_oop_asincio"
    THEN FindAuthor(store, author_data.fullname) = <<>>
    ELSE TRUE

\* upload_author_data: the store after the loop body for author_data.
UploadAuthor(store, author_data) ==
    IF AuthorWritten(store, author_data)
    THEN [store EXCEPT !.authors = Write(@, author_data)]
    ELSE store

\* upload_author_data of main_asincio_motor: insert_many
RECURSIVE InsertMany(_, _)
InsertMany(coll, docs) ==
    IF docs = <<>> THEN coll ELSE InsertMany(InsertOne(coll, Head(docs)), Tail(docs))

\* A mutant of QuoteAuthor: the quote is linked to the first stored author.
QuoteAuthorAny(store, quote_data) ==
    IF store.authors = <<>> THEN <<>> ELSE <<store.authors[1]>>

\* upload_quotes_data: author, the stored author the quote is linked to.
QuoteAuthor(store, quote_data) == FindAuthor(store, quote_data.author)

\* A mutant of QuoteWritten: no variant looks the text up before it writes.
QuoteWrittenAnyText(store, quote_data) == QuoteAuthor(store, quote_data) # <<>>

\* upload_quotes_data: whether the loop body writes quote_data.
QuoteWritten(store, quote_data) ==
    /\ QuoteAuthor(store, quote_data) # <<>>
    /\ variant = "main_oop_asincio" => FindQuote(store, quote_data.quote) = <<>>

\* upload_quotes_data: the store after the loop body for quote_data.  The
\* stored document holds the author's identity in place of the name; name
\* and run are history fields the code does not store: the author name
\* extracted for the quote and the run that wrote it.
UploadQuote(store, quote_data) ==
    IF QuoteWritten(store, quote_data)
    THEN [store EXCEPT !.quotes =
            Write(@, [author |-> QuoteAuthor(store, quote_data)[1].id,
                      tags   |-> quote_data.tags,
                      quote  |-> quote_data.quote,
                      name   |-> quote_data.author,
                      run    |-> run])]
    ELSE store

----------------------------------------------------------------------------
(* The statements of main, in program order *)

\* A mutant of Stages: the two uploads are called in the opposite order.
StagesQuotesFirst ==
    <<"get_pages", "get_authors_info", "parse_authors", "write_authors",
      "parse_quotes", "write_quotes", "read_authors", "read_quotes",
      "upload_quotes_data", "upload_author_data", "done">>

Stages ==
    <<"get_pages", "get_authors_info", "parse_authors", "write_authors",
      "parse_quotes", "write_quotes", "read_authors", "read_quotes",
      "upload_author_data", "upload_quotes_data", "done">>

\* The statement that follows stage s.
After(s) == Stages[(CHOOSE k \in 1..Len(Stages) : Stages[k] = s) + 1]

\* A mutant of QuotePages: parse_quotes walks a fixed list of listing pages.
QuotePagesListed == <<Base, Base \o <<"A">>, Base \o <<"B">> >>

\* main: the links handed to parse_quotes, parse_quotes(pages).
QuotePages == pages

\* A mutant of Urls: every fetch is made for the first entry's URL.
UrlsFirst(worklist) == [k \in 1..Len(worklist) |-> worklist[1].author_info_url]

\* parse_authors: url = author["author_info_url"], for each entry in turn.
Urls(worklist) == [k \in 1..Len(worklist) |-> worklist[k].author_info_url]

----------------------------------------------------------------------------
(* The sites and stores the runs start from *)

ListingUrls == {Base, Base \o <<"A">>, Base \o <<"B">>}

ProfileUrls == {Base \o <<"pa">>, Base \o <<"pb">>}

\* The next element of a listing page: absent, or an anchor whose href is
\* "A", "B" or missing (attrs.get("href", "") then gives "").
NextPointers == {<<>>, << <<"A">> >>, << <<"B">> >>, << <<>> >>}

\* Quote elements: author name, href of the profile link, text, tags.
Q1 == [author |-> <<"a">>, href |-> <<"pa">>, quote |-> <<"t1">>,
       tags |-> << <<"x">>, <<" ", "y">> >>]

Q2 == [author |-> <<"b">>, href |-> <<"pb">>, quote |-> <<"t1">>,
       tags |-> << <<"y", " ">>, <<"x">>, <<"y">> >>]

Q3 == [author |-> <<"a">>, href |-> <<"pb">>, quote |-> <<"t2">>,
       tags |-> <<>>]

QuoteElements == {Q1, Q2, Q3}

\* A profile page with the given title.
Profile(title) ==
    [title |-> title, born_date |-> <<" ", "n">>,
     born_location |-> <<"l", " ">>, description |-> <<" ", "d", " ">>]

\* An author record of an earlier run.
OldAuthor(id, fullname) ==
    [id |-> id, fullname |-> fullname, born_date |-> <<"o">>,
     born_location |-> <<"l">>, description |-> <<"d">>]

Stores ==
    { [authors |-> <<>>, quotes |-> <<>>],
      [authors |-> <<OldAuthor(1, <<"b">>)>>, quotes |-> <<>>],
      [authors |-> <<OldAuthor(1, <<"a">>), OldAuthor(2, <<"b">>)>>,
       quotes  |-> << [id |-> 1, author |-> 1, tags |-> <<>>,
                       quote |-> <<"t1">>, name |-> <<"a">>, run |-> 0] >>] }

\* Sites that differ in their chain of next pointers.
WalkSites ==
    { [next    |-> n,
       quotes  |-> [u \in ListingUrls |->
                       IF u = Base THEN <<Q1>> ELSE IF u = Base \o <<"A">>
                       THEN <<Q2>> ELSE <<Q3>>],
       profile |-> [u \in ProfileUrls |->
                       IF u = Base \o <<"pa">> THEN <<Profile(<<"a", " ">>)>>
                       ELSE <<Profile(<<" ", "b">>)>>]] :
      n \in [ListingUrls -> NextPointers] }

\* Sites that differ in their quotes and profiles: the seed page leads to
\* page A, and page B is not linked from either.
ContentSites ==
    { [next    |-> [u \in ListingUrls |->
                       IF u = Base THEN << <<"A">> >> ELSE <<>>],
       quotes  |-> [u \in ListingUrls |->
                       IF u = Base THEN qs ELSE IF u = Base \o <<"A">>
                       THEN qa ELSE qb],
       profile |-> [u \in ProfileUrls |->
                       IF u = Base \o <<"pa">> THEN <<Profile(<<"a", " ">>)>>
                       ELSE pb]] :
      qs \in {<<>>} \cup {<<x>> : x \in QuoteElements}
                    \cup {<<x, y>> : x \in QuoteElements, y \in QuoteElements},
      qa \in {<<>>} \cup {<<x>> : x \in QuoteElements},
      qb \in {<<>>, <<Q2>>},
      pb \in {<<>>, <<Profile(<<" ", "b">>)>>, <<Profile(<<" ", "a">>)>>} }

\* What every run starts from, whatever the site and the store.
Start ==
    /\ variant \in Variants
    /\ run = 1
    /\ pc = "main"
    /\ links = <<>>
    /\ link_to_parse = <<>>
    /\ pages = <<>>
    /\ author_links = <<>>
    /\ authors_info = <<>>
    /\ quotes_info = <<>>
    /\ authors_json = <<>>
    /\ quotes_json = <<>>
    /\ authors_data = <<>>
    /\ quotes_data = <<>>
    /\ i = 1
    /\ arrived = <<>>
    /\ fetchLog = <<>>
    /\ before = db

InitWalk ==
    /\ site \in WalkSites
    /\ db \in {s \in Stores : Len(s.authors) # 1}
    /\ failAt \in 0..MaxFail
    /\ Start

InitContent ==
    /\ site \in ContentSites
    /\ db \in Stores
    /\ failAt = 0
    /\ Start

Init == InitWalk \/ InitContent

----------------------------------------------------------------------------
(* Actions *)

\* main: connect and call get_pages, up to its loop.
Main ==
    /\ pc = "main"
    /\ pc' = Stages[1]
    /\ links' = <<Base>>
    /\ link_to_parse' = <<Base>>
    /\ UNCHANGED <<variant, site, failAt, db, run, pages, author_links, authors_info,
                   quotes_info, authors_json, quotes_json, authors_data,
                   quotes_data, i, arrived, fetchLog, before>>

\* get_pages: one iteration of the while loop.
GetPagesLoop ==
    /\ pc = "get_pages"
    /\ link_to_parse # <<>>
    /\ Len(links) < MaxLinks
    /\ LET soup == GetSoup(link_to_parse[1])
       IN  IF FetchRaises(Len(fetchLog) + 1)
           THEN /\ pc' = "aborted"
                /\ UNCHANGED <<links, link_to_parse>>
           ELSE /\ pc' = pc
                /\ IF HasNext(soup, links)
                   THEN LET url == NextUrl(Base, link_to_parse[1], soup.next[1])
                        IN  /\ links' = Append(links, url)
                            /\ link_to_parse' = <<url>>
                   ELSE /\ links' = links
                        /\ link_to_parse' = <<>>
    /\ fetchLog' = Append(fetchLog, link_to_parse[1])
    /\ UNCHANGED <<variant, site, failAt, db, run, pages, author_links,
                   authors_info, quotes_info, authors_json, quotes_json,
                   authors_data, quotes_data, i, arrived, before>>

\* get_pages returns; main calls get_authors_info.
GetPagesReturn ==
    /\ pc = "get_pages"
    /\ link_to_parse = <<>>
    /\ pages' = links
    /\ pc' = After("get_pages")
    /\ author_links' = <<>>
    /\ i' = 1
    /\ UNCHANGED <<variant, site, failAt, db, run, links, link_to_parse, authors_info,
                   quotes_info, authors_json, quotes_json, authors_data,
                   quotes_data, arrived, fetchLog, before>>

\* get_authors_info: one iteration of the loop over urls.
GetAuthorsInfoLoop ==
    /\ pc = "get_authors_info"
    /\ i <= Len(pages)
    /\ IF FetchRaises(Len(fetchLog) + 1)
       THEN /\ pc' = "aborted"
            /\ UNCHANGED <<author_links, i>>
       ELSE /\ pc' = pc
            /\ author_links' =
                  CollectAuthors(author_links, GetSoup(pages[i]).quotes, Base, 1)
            /\ i' = i + 1
    /\ fetchLog' = Append(fetchLog, pages[i])
    /\ UNCHANGED <<variant, site, failAt, db, run, links, link_to_parse, pages,
                   authors_info, quotes_info, authors_json, quotes_json,
                   authors_data, quotes_data, arrived, before>>

\* get_authors_info returns; main calls parse_authors, which in
\* main_asincio_motor creates all its fetches at once.
GetAuthorsInfoReturn ==
    /\ pc = "get_authors_info"
    /\ i > Len(pages)
    /\ pc' = After("get_authors_info")
    /\ authors_info' = <<>>
    /\ i' = 1
    /\ arrived' = <<>>
    /\ fetchLog' = IF Motor THEN fetchLog \o Urls(author_links) ELSE fetchLog
    /\ UNCHANGED <<variant, site, failAt, db, run, links, link_to_parse, pages,
                   author_links, quotes_info, authors_json, quotes_json,
                   authors_data, quotes_data, before>>

\* parse_authors: one iteration of the loop over author_links.  A document
\* without the profile elements raises (None has no text) and ends the run.
ParseAuthorsLoop ==
    /\ pc = "parse_authors"
    /\ ~Motor
    /\ i <= Len(author_links)
    /\ LET soup == GetSoup(Urls(author_links)[i])
       IN  IF FetchRaises(Len(fetchLog) + 1) \/ soup.profile = <<>>
           THEN /\ pc' = "aborted"
                /\ UNCHANGED <<authors_info, i>>
           ELSE /\ authors_info' = Append(authors_info, AuthorRecord(soup.profile[1]))
                /\ i' = i + 1
                /\ pc' = pc
    /\ fetchLog' = Append(fetchLog, Urls(author_links)[i])
    /\ UNCHANGED <<variant, site, failAt, db, run, links, link_to_parse, pages,
                   author_links, quotes_info, authors_json, quotes_json,
                   authors_data, quotes_data, arrived, before>>

\* main_asincio_motor, asyncio.gather: one of the pending fetches completes.
GatherArrive ==
    /\ pc \in {"parse_authors", "parse_quotes"}
    /\ Motor
    /\ LET n == IF pc = "parse_authors" THEN Len(author_links)
                                          ELSE Len(QuotePages)
       IN  \E t \in 1..n :
            /\ \A k \in 1..Len(arrived) : arrived[k] # t
            /\ arrived' = Append(arrived, t)
            /\ pc' = IF FetchRaises(Len(fetchLog) - n + t) THEN "aborted" ELSE pc
    /\ UNCHANGED <<variant, site, failAt, db, run, links, link_to_parse, pages,
                   author_links, authors_info, quotes_info, authors_json,
                   quotes_json, authors_data, quotes_data, i, fetchLog, before>>

\* parse_authors returns.  In main_asincio_motor every fetch has completed
\* and the loop over soups runs here.
ParseAuthorsReturn ==
    /\ pc = "parse_authors"
    /\ IF Motor
       THEN /\ AllArrived(arrived, Len(author_links))
            /\ LET soups == Gather(Urls(author_links), arrived)
               IN  IF \E k \in 1..Len(soups) : soups[k].profile = <<>>
                   THEN /\ pc' = "aborted"
                        /\ UNCHANGED authors_info
                   ELSE /\ authors_info' =
                              [k \in 1..Len(soups) |-> AuthorRecord(soups[k].profile[1])]
                        /\ pc' = After("parse_authors")
       ELSE /\ i > Len(author_links)
            /\ pc' = After("parse_authors")
            /\ UNCHANGED authors_info
    /\ UNCHANGED <<variant, site, failAt, db, run, links, link_to_parse, pages,
                   author_links, quotes_info, authors_json, quotes_json,
                   authors_data, quotes_data, i, arrived, fetchLog, before>>

\* write_to_json("authors.json", authors_info); main calls parse_quotes,
\* which in main_asincio_motor creates all its fetches at once.
WriteAuthorsJson ==
    /\ pc = "write_authors"
    /\ authors_json' = authors_info
    /\ pc' = After("write_authors")
    /\ quotes_info' = <<>>
    /\ i' = 1
    /\ arrived' = <<>>
    /\ fetchLog' = IF Motor THEN fetchLog \o QuotePages ELSE fetchLog
    /\ UNCHANGED <<variant, site, failAt, db, run, links, link_to_parse, pages,
                   author_links, authors_info, quotes_json, authors_data,
                   quotes_data, before>>

\* parse_quotes: one iteration of the loop over links.
ParseQuotesLoop ==
    /\ pc = "parse_quotes"
    /\ ~Motor
    /\ i <= Len(QuotePages)
    /\ IF FetchRaises(Len(fetchLog) + 1)
       THEN /\ pc' = "aborted"
            /\ UNCHANGED <<quotes_info, i>>
       ELSE /\ pc' = pc
            /\ quotes_info' = quotes_info \o QuoteRecords(GetSoup(QuotePages[i]))
            /\ i' = i + 1
    /\ fetchLog' = Append(fetchLog, QuotePages[i])
    /\ UNCHANGED <<variant, site, failAt, db, run, links, link_to_parse, pages,
                   author_links, authors_info, authors_json, quotes_json,
                   authors_data, quotes_data, arrived, before>>

\* parse_quotes returns.  In main_asincio_motor every fetch has completed
\* and the loop over soups runs here.
ParseQuotesReturn ==
    /\ pc = "parse_quotes"
    /\ IF Motor
       THEN /\ AllArrived(arrived, Len(QuotePages))
            /\ LET soups == Gather(QuotePages, arrived)
               IN  quotes_info' =
                       Flatten([k \in 1..Len(soups) |-> QuoteRecords(soups[k])])
       ELSE /\ i > Len(QuotePages)
            /\ UNCHANGED quotes_info
    /\ pc' = After("parse_quotes")
    /\ UNCHANGED <<variant, site, failAt, db, run, links, link_to_parse, pages,
                   author_links, authors_info, authors_json, quotes_json,
                   authors_data, quotes_data, i, arrived, fetchLog, before>>

\* write_to_json("quotes.json", quotes_info)
WriteQuotesJson ==
    /\ pc = "write_quotes"
    /\ quotes_json' = quotes_info
    /\ pc' = After("write_quotes")
    /\ UNCHANGED <<variant, site, failAt, db, run, links, link_to_parse, pages,
                   author_links, authors_info, quotes_info, authors_json,
                   authors_data, quotes_data, i, arrived, fetchLog, before>>

\* authors_data = read_from_json("authors.json")
ReadAuthorsJson ==
    /\ pc = "read_authors"
    /\ authors_data' = authors_json
    /\ pc' = After("read_authors")
    /\ UNCHANGED <<variant, site, failAt, db, run, links, link_to_parse, pages,
                   author_links, authors_info, quotes_info, authors_json,
                   quotes_json, quotes_data, i, arrived, fetchLog, before>>

\* quotes_data = read_from_json("quotes.json"); main calls the first upload.
ReadQuotesJson ==
    /\ pc = "read_quotes"
    /\ quotes_data' = quotes_json
    /\ pc' = After("read_quotes")
    /\ i' = 1
    /\ UNCHANGED <<variant, site, failAt, db, run, links, link_to_parse, pages,
                   author_links, authors_info, quotes_info, authors_json,
                   quotes_json, authors_data, arrived, fetchLog, before>>

\* upload_author_data (mongoengine variants): one iteration of the loop.
UploadAuthorLoop ==
    /\ pc = "upload_author_data"
    /\ ~Motor
    /\ i <= Len(authors_data)
    /\ db' = UploadAuthor(db, authors_data[i])
    /\ i' = i + 1
    /\ UNCHANGED <<variant, site, failAt, run, pc, links, link_to_parse, pages,
                   author_links, authors_info, quotes_info, authors_json,
                   quotes_json, authors_data, quotes_data, arrived, fetchLog,
                   before>>

\* upload_author_data returns.  In main_asincio_motor the whole of it runs
\* here: one insert_many, which raises on an empty list of documents.
UploadAuthorReturn ==
    /\ pc = "upload_author_data"
    /\ IF Motor
       THEN IF authors_data = <<>>
            THEN /\ pc' = "aborted"
                 /\ UNCHANGED db
            ELSE /\ db' = [db EXCEPT !.authors = InsertMany(@, authors_data)]
                 /\ pc' = After("upload_author_data")
       ELSE /\ i > Len(authors_data)
            /\ pc' = After("upload_author_data")
            /\ UNCHANGED db
    /\ i' = 1
    /\ UNCHANGED <<variant, site, failAt, run, links, link_to_parse, pages,
                   author_links, authors_info, quotes_info, authors_json,
                   quotes_json, authors_data, quotes_data, arrived, fetchLog,
                   before>>

\* upload_quotes_data: one iteration of the loop.
UploadQuoteLoop ==
    /\ pc = "upload_quotes_data"
    /\ i <= Len(quotes_data)
    /\ db' = UploadQuote(db, quotes_data[i])
    /\ i' = i + 1
    /\ UNCHANGED <<variant, site, failAt, run, pc, links, link_to_parse, pages,
                   author_links, authors_info, quotes_info, authors_json,
                   quotes_json, authors_data, quotes_data, arrived, fetchLog,
                   before>>

\* upload_quotes_data returns.
UploadQuotesReturn ==
    /\ pc = "upload_quotes_data"
    /\ i > Len(quotes_data)
    /\ pc' = After("upload_quotes_data")
    /\ i' = 1
    /\ UNCHANGED <<variant, site, failAt, db, run, links, link_to_parse, pages,
                   author_links, authors_info, quotes_info, authors_json,
                   quotes_json, authors_data, quotes_data, arrived, fetchLog,
                   before>>

\* The script is started again, against the same store and the same site.
\* The staging files are still on disk; everything else starts afresh.
Rerun ==
    /\ pc = "done"
    /\ run < MaxRuns
    /\ run' = run + 1
    /\ pc' = "main"
    /\ before' = db
    /\ links' = <<>>
    /\ link_to_parse' = <<>>
    /\ pages' = <<>>
    /\ author_links' = <<>>
    /\ authors_info' = <<>>
    /\ quotes_info' = <<>>
    /\ authors_data' = <<>>
    /\ quotes_data' = <<>>
    /\ i' = 1
    /\ arrived' = <<>>
    /\ fetchLog' = <<>>
    /\ UNCHANGED <<variant, site, failAt, db, authors_json, quotes_json>>

Next ==
    \/ Main
    \/ GetPagesLoop
    \/ GetPagesReturn
    \/ GetAuthorsInfoLoop
    \/ GetAuthorsInfoReturn
    \/ ParseAuthorsLoop
    \/ GatherArrive
    \/ ParseAuthorsReturn
    \/ WriteAuthorsJson
    \/ ParseQuotesLoop
    \/ ParseQuotesReturn
    \/ WriteQuotesJson
    \/ ReadAuthorsJson
    \/ ReadQuotesJson
    \/ UploadAuthorLoop
    \/ UploadAuthorReturn
    \/ UploadQuoteLoop
    \/ UploadQuotesReturn
    \/ Rerun

Spec == Init /\ [][Next]_vars

\* The runs over the sites that differ in their chain of next pointers.  The
\* script runs on until it ends: no fetch fails and nothing suspends it for
\* ever.
WalkSpec == InitWalk /\ [][Next]_vars /\ WF_vars(Next)

----------------------------------------------------------------------------
(* Vocabulary of the properties *)

Range(f) == {f[k] : k \in DOMAIN f}

\* The quotes the runs so far have written (the store started with the rest).
Written(store) == {q \in Range(store.quotes) : q.run >= 1}

\* The quotes the current run has written.
WrittenNow == {q \in Range(db.quotes) : q.run = run}

\* The listing pages from url on, following the next pointers as the walker
\* resolves them, up to the first page without one or already seen.
RECURSIVE ChainFrom(_, _)
ChainFrom(url, seen) ==
    IF url \in seen THEN <<>>
    ELSE IF GetSoup(url).next = <<>> THEN <<url>>
    ELSE <<url>> \o ChainFrom(Base \o GetSoup(url).next[1], seen \cup {url})

Chain == ChainFrom(Base, {})

\* The chain ends at a page without a next pointer.
Acyclic == GetSoup(Chain[Len(Chain)]).next = <<>>

\* get_pages has just returned.
Walked == pc = "get_authors_info" /\ i = 1 /\ author_links = <<>>

\* The author names the quote elements of the crawled pages show.
CrawledNames ==
    UNION {{el.author : el \in Range(GetSoup(u).quotes)} : u \in Range(pages)}

----------------------------------------------------------------------------
(* Properties *)

\* C1: a second run against the same store and the same pages inserts no
\* author and no quote: the store stays as the first run left it.
C1_Idempotent == run >= 2 => db = before

\* C2: an author write never adds a record whose fullname an earlier stored
\* record has, and leaves the stored records as they are.
C2_InsertIfAbsent ==
    [][/\ Len(db'.authors) >= Len(db.authors)
       /\ SubSeq(db'.authors, 1, Len(db.authors)) = db.authors
       /\ \A k \in (Len(db.authors) + 1)..Len(db'.authors) :
             \A j \in 1..(k - 1) :
                 db'.authors[j].fullname # db'.authors[k].fullname]_vars

\* C3: the store never holds two quote records with the same text.
C3_NoDuplicateText ==
    \A j, k \in 1..Len(db.quotes) :
        j # k => db.quotes[j].quote # db.quotes[k].quote

\* C4: after one run on an empty store there are as many author records as
\* distinct fullnames the profile resolver produced.
C4_OneRecordPerFullname ==
    (run = 1 /\ before.authors = <<>> /\ pc = "done") =>
        Len(db.authors) = Cardinality({a.fullname : a \in Range(authors_info)})

\* C5: the author a written quote refers to is a stored author whose
\* fullname is exactly the author name extracted for the quote.
C5_AuthorOfQuote ==
    \A q \in Written(db) :
        \E a \in Range(db.authors) : a.id = q.author /\ a.fullname = q.name

\* C5 witness: a run has written a quote.
C5_Witness == pc = "done" /\ WrittenNow # {}

\* C6: a quote written by the run carries an author name that some quote
\* element of the crawled pages shows.
C6_OnlyCrawledNames == \A q \in WrittenNow : q.name \in CrawledNames

\* C6 witness: the run is over and has written quotes; a page it did not
\* crawl shows a quote of an author no crawled page names; the store holds
\* an author of that name, and no quote of that name was written.
C6_Witness ==
    /\ pc = "done"
    /\ WrittenNow # {}
    /\ \E u \in DOMAIN site.quotes : \E el \in Range(site.quotes[u]) :
          /\ el.author \notin CrawledNames
          /\ FindAuthor(db, el.author) # <<>>
          /\ \A q \in Written(db) : q.name # el.author

ThreePages(a, b) ==
    /\ GetSoup(Base).next = <<a>>
    /\ GetSoup(Base \o a).next = <<b>>
    /\ GetSoup(Base \o b).next = <<>>

\* C8 as stated: for the chain seed -> A -> B, get_pages returns
\* [seed, seed+A, seed+A+B].
C8_Accumulated ==
    (Walked /\ ThreePages(<<"A">>, <<"B">>)) =>
        pages = <<Base, Base \o <<"A">>, Base \o <<"A">> \o <<"B">> >>

\* C8 amended: for a chain seed -> a -> b, get_pages returns
\* [seed, seed+a, seed+b].
C8_CrawlOrder ==
    \A a, b \in {<<"A">>, <<"B">>, <<>>} :
        (Walked /\ ThreePages(a, b)) => pages = <<Base, Base \o a, Base \o b>>

\* C8 witness: get_pages has returned from the chain seed -> A -> B.
C8_Witness == Walked /\ ThreePages(<<"A">>, <<"B">>) /\ Len(pages) = 3

\* C9: when the chain of next pointers ends and no fetch of it fails,
\* get_pages returns, with the pages of the chain in order and each fetched
\* once.
C9_Terminates ==
    (pc = "get_pages" /\ Acyclic /\ failAt \notin 1..Len(Chain)) ~>
        (Walked /\ pages = Chain /\ fetchLog = Chain)

\* C9 witness: get_pages has returned from a chain of three pages.
C9_Witness == Walked /\ Acyclic /\ Len(Chain) = 3 /\ fetchLog = Chain

\* C10: an author is written only while the run has written no quote, and
\* a quote is looked up or written only when every author record of the run
\* is in the store.
C10_AuthorsBeforeQuotes ==
    [][/\ db'.authors # db.authors => WrittenNow = {}
       /\ (pc = "upload_quotes_data" /\ i <= Len(quotes_data)) =>
             \A a \in Range(authors_data) :
                 \E b \in Range(db.authors) :
                     /\ b.fullname = a.fullname
                     /\ variant # "main_oop_asincio" => b.id > Len(before.authors)]_vars

\* C10 witness: the run has written authors and is about to write a quote.
C10_Witness ==
    /\ pc = "upload_quotes_data"
    /\ i <= Len(quotes_data)
    /\ db.authors # before.authors
    /\ QuoteWritten(db, quotes_data[i])

\* The quote elements of the crawled pages, in page order and then in
\* document order.
Occurrences == Flatten([k \in 1..Len(pages) |-> GetSoup(pages[k]).quotes])

\* The position in Occurrences of the first element that names author_name.
FirstOccurrence(author_name) ==
    Min({e \in 1..Len(Occurrences) : Occurrences[e].author = author_name})

\* C11: the work list handed to parse_authors holds each author name of the
\* crawled pages exactly once, in the order of the names' first occurrences,
\* each with the URL of its first occurrence.
C11_FirstOccurrence ==
    pc = "parse_authors" =>
        /\ \A k, m \in 1..Len(author_links) :
              author_links[k].author_name = author_links[m].author_name => k = m
        /\ \A e \in 1..Len(Occurrences) :
              \E k \in 1..Len(author_links) :
                  author_links[k].author_name = Occurrences[e].author
        /\ \A k \in 1..Len(author_links) :
              /\ \E e \in 1..Len(Occurrences) :
                    Occurrences[e].author = author_links[k].author_name
              /\ author_links[k].author_info_url =
                    Base \o Occurrences[FirstOccurrence(author_links[k].author_name)].href
        /\ \A k, m \in 1..Len(author_links) :
              k < m => FirstOccurrence(author_links[k].author_name)
                           < FirstOccurrence(author_links[m].author_name)

\* C11 witness: a name occurs a second time with another URL, after another
\* name, and the work list has gone to parse_authors.
C11_Witness ==
    /\ pc = "parse_authors"
    /\ Len(author_links) = 2
    /\ \E e, f \in 1..Len(Occurrences) :
          /\ e < f
          /\ Occurrences[e].author = Occurrences[f].author
          /\ Occurrences[e].href # Occurrences[f].href

\* The stages in which main_asincio_motor awaits a gather.
GatherStages == {"parse_authors", "parse_quotes"}

\* C12: once a fetch of the run has failed, the run is aborted or (in
\* main_asincio_motor) still awaits the gather the failing fetch belongs to,
\* no fetch is retried or issued afterwards, no persistence stage is reached
\* and the store is as it was before the run.
C12_FailFast ==
    failAt \in 1..Len(fetchLog) =>
        /\ db = before
        /\ pc \in GatherStages \cup {"aborted"}
        /\ ~Motor => pc = "aborted" /\ Len(fetchLog) = failAt
        /\ Motor /\ pc # "aborted" =>
              LET n == IF pc = "parse_authors" THEN Len(author_links)
                                               ELSE Len(QuotePages)
              IN  /\ Len(arrived) < n
                  /\ \A k \in 1..Len(arrived) :
                        arrived[k] # failAt - (Len(fetchLog) - n)

\* C12 witness: the fetch of an author's profile page failed over a store
\* that held records, in a variant that fetches one page at a time.
C12_Witness ==
    /\ failAt \in 1..Len(fetchLog)
    /\ fetchLog[failAt] \in ProfileUrls
    /\ ~Motor
    /\ pc = "aborted"
    /\ db.quotes # <<>>

\* The tag texts of a quote element, each without its surrounding
\* whitespace, in markup order.
Trimmed(tags) == [t \in 1..Len(tags) |-> Strip(tags[t])]

\* C13 as stated: the tags of every extracted record are the tag texts of
\* its quote element, as they stand in the markup.
C13_TagsVerbatim ==
    pc = "write_quotes" =>
        /\ Len(quotes_info) = Len(Occurrences)
        /\ \A k \in 1..Len(quotes_info) :
              quotes_info[k].tags = Occurrences[k].tags

\* C13: the tags of every extracted record, and of every quote the run
\* stores, are the trimmed tag texts of its quote element, one per tag of
\* the markup and in markup order, repeated tags included.
C13_TagsInOrder ==
    /\ pc = "write_quotes" =>
          /\ Len(quotes_info) = Len(Occurrences)
          /\ \A k \in 1..Len(quotes_info) :
                quotes_info[k].tags = Trimmed(Occurrences[k].tags)
    /\ \A q \in WrittenNow :
          \E e \in 1..Len(Occurrences) :
              /\ q.quote = Occurrences[e].quote
              /\ q.name = Occurrences[e].author
              /\ q.tags = Trimmed(Occurrences[e].tags)

\* C13 witness: a stored quote whose element repeats a tag, once with
\* whitespace around it, between which another tag stands.
C13_Witness ==
    \E q \in WrittenNow : q.tags = << <<"y">>, <<"x">>, <<"y">> >>

\* C14 as stated: a step of get_pages that reads a next element whose anchor
\* has no href aborts the run and appends nothing, and a step of
\* parse_authors that reads a document without the profile fields aborts
\* the run and records nothing.
C14_StructuralErrorsFatal ==
    [][/\ (/\ pc = "get_pages"
           /\ link_to_parse # <<>>
           /\ GetSoup(link_to_parse[1]).next = << <<>> >>)
          => (pc' = "aborted" /\ links' = links)
       /\ (/\ pc = "parse_authors"
           /\ ~Motor
           /\ i <= Len(author_links)
           /\ GetSoup(author_links[i].author_info_url).profile = <<>>)
          => (pc' = "aborted" /\ authors_info' = authors_info)]_vars

\* C15: whenever get_pages appends a URL, it is the seed URL followed by the
\* next pointer of the page fetched in that step, and it becomes the page to
\* fetch next; throughout get_pages the pages fetched are the pages listed,
\* in the order listed, and the page to fetch is the last one listed.
C15_SeedPlusPointer ==
    /\ [](pc = "get_pages" =>
            /\ Len(fetchLog) <= Len(links)
            /\ \A k \in 1..Len(fetchLog) : fetchLog[k] = links[k]
            /\ link_to_parse # <<>> =>
                  /\ link_to_parse[1] = links[Len(links)]
                  /\ Len(fetchLog) = Len(links) - 1)
    /\ [][(pc = "get_pages" /\ links' # links) =>
            LET pointer == GetSoup(link_to_parse[1]).next
            IN  /\ pointer # <<>>
                /\ links' = Append(links, Base \o pointer[1])
                /\ link_to_parse' = <<Base \o pointer[1]>>
                /\ fetchLog' = Append(fetchLog, link_to_parse[1])]_vars

\* C15 witness: get_pages has appended seed+A and then seed+B and is about
\* to fetch seed+B.
C15_Witness ==
    /\ pc = "get_pages"
    /\ links = <<Base, Base \o <<"A">>, Base \o <<"B">> >>
    /\ fetchLog = <<Base, Base \o <<"A">> >>
    /\ link_to_parse = <<Base \o <<"B">> >>

\* C16: when the chain of next pointers leads back to a page already
\* visited, the run never leaves get_pages for a later stage, and unless a
\* fetch fails get_pages keeps fetching and listing pages up to any length
\* (here MaxLinks), still with a page to fetch.
C16_NoCycleGuard ==
    /\ [](~Acyclic => pc \in {"main", "get_pages", "aborted"})
    /\ [](~Acyclic /\ pc = "aborted" => failAt \in 1..Len(fetchLog))
    /\ (pc = "get_pages" /\ ~Acyclic /\ failAt \notin 1..(MaxLinks - 1)) ~>
          (/\ pc = "get_pages"
           /\ Len(links) = MaxLinks
           /\ link_to_parse # <<>>
           /\ fetchLog = SubSeq(links, 1, MaxLinks - 1))

\* C16 witness: on the cycle seed -> A -> seed, get_pages has fetched both
\* pages, the seed again, and goes on.
C16_Witness ==
    /\ pc = "get_pages"
    /\ ~Acyclic
    /\ Len(Chain) = 2
    /\ links = <<Base, Base \o <<"A">>, Base, Base \o <<"A">> >>
    /\ link_to_parse # <<>>

\* The stages main reaches once parse_authors has returned its list.
AfterParseAuthors ==
    {"write_authors", "parse_quotes", "write_quotes", "read_authors",
     "read_quotes", "upload_author_data", "upload_quotes_data", "done"}

\* C17: once parse_authors has returned, its list has one record per entry
\* of the work list, the k-th built from the profile page of the k-th
\* entry, that page was requested exactly once, by the k-th profile request,
\* and no entry's request failed or gave a page without the profile fields.
C17_OneToOne ==
    pc \in AfterParseAuthors =>
        /\ Len(authors_info) = Len(author_links)
        /\ Len(fetchLog) >= 2 * Len(pages) + Len(author_links)
        /\ \A k \in 1..Len(author_links) :
              LET url == author_links[k].author_info_url
              IN  /\ GetSoup(url).profile # <<>>
                  /\ authors_info[k] = AuthorRecord(GetSoup(url).profile[1])
                  /\ fetchLog[2 * Len(pages) + k] = url
                  /\ failAt # 2 * Len(pages) + k

\* C17 witness: parse_authors has returned two records for a work list of
\* two entries with different profile pages.
C17_Witness ==
    /\ pc = "write_authors"
    /\ Len(author_links) = 2
    /\ Len(authors_info) = 2
    /\ authors_info[1] # authors_info[2]
    /\ author_links[1].author_info_url # author_links[2].author_info_url

\* C18: in main_asincio_motor, every page get_pages fetches after the seed
\* is the one the page fetched just before it named; a profile page is
\* requested only when get_authors_info has returned, the work list holding
\* every author name of the crawled pages; and parse_authors hands over to
\* the staging write only when every profile fetch has completed, in
\* whatever order they did.
C18_Barrier ==
    /\ [](Motor /\ pc = "get_pages" =>
            \A k \in 2..Len(fetchLog) :
                /\ GetSoup(fetchLog[k - 1]).next # <<>>
                /\ fetchLog[k] = Base \o GetSoup(fetchLog[k - 1]).next[1])
    /\ [](Motor /\ (\E k \in 1..Len(fetchLog) : fetchLog[k] \in ProfileUrls) =>
            /\ pc \notin {"main", "get_pages", "get_authors_info"}
            /\ \A e \in 1..Len(Occurrences) :
                  \E k \in 1..Len(author_links) :
                      author_links[k].author_name = Occurrences[e].author)
    /\ [][Motor /\ pc = "parse_authors" /\ pc' \notin {"parse_authors", "aborted"} =>
            /\ pc' = "write_authors"
            /\ Len(arrived) = Len(author_links)
            /\ \A t \in 1..Len(author_links) :
                  \E k \in 1..Len(arrived) : arrived[k] = t]_vars

\* C18 witness: the fetch of the second profile page completed before that
\* of the first, and parse_authors has returned.
C18_Witness ==
    /\ Motor
    /\ pc = "write_authors"
    /\ arrived = <<2, 1>>
    /\ Len(authors_info) = 2

\* main.py, parse_authors: the list the sequential loop returns for a work
\* list whose profile pages are all there.
RECURSIVE SequentialAuthors(_)
SequentialAuthors(worklist) ==
    IF worklist = <<>> THEN <<>>
    ELSE <<AuthorRecord(GetSoup(Head(worklist).author_info_url).profile[1])>>
             \o SequentialAuthors(Tail(worklist))

\* main.py, parse_quotes: the list the sequential loop returns.
RECURSIVE SequentialQuotes(_)
SequentialQuotes(ls) ==
    IF ls = <<>> THEN <<>>
    ELSE QuoteRecords(GetSoup(Head(ls))) \o SequentialQuotes(Tail(ls))

\* main.py, upload_author_data: the store after the loop over docs.
RECURSIVE SequentialUploadAuthors(_, _)
SequentialUploadAuthors(store, docs) ==
    IF docs = <<>> THEN store
    ELSE SequentialUploadAuthors(
             [store EXCEPT !.authors = Save(@, Head(docs))], Tail(docs))

\* main.py, upload_quotes_data: the store after the loop over docs, written
\* in run r.
RECURSIVE SequentialUploadQuotes(_, _, _)
SequentialUploadQuotes(store, docs, r) ==
    IF docs = <<>> THEN store
    ELSE LET author == FindAuthor(store, Head(docs).author)
         IN  SequentialUploadQuotes(
                 IF author # <<>>
                 THEN [store EXCEPT !.quotes =
                         Save(@, [author |-> author[1].id,
                                  tags   |-> Head(docs).tags,
                                  quote  |-> Head(docs).quote,
                                  name   |-> Head(docs).author,
                                  run    |-> r])]
                 ELSE store,
                 Tail(docs), r)

\* The stages main reaches once parse_quotes has returned its list.
AfterParseQuotes ==
    {"write_quotes", "read_authors", "read_quotes", "upload_author_data",
     "upload_quotes_data", "done"}

\* C19: in main_asincio_motor, whatever the order in which the gathered
\* fetches completed, parse_authors returns what the sequential loop of
\* main.py returns for the same work list, parse_quotes what the sequential
\* loop returns for the same pages, the lists read back for the uploads are
\* those lists, and the store the run ends with is the store the uploads of
\* main.py leave for them.
C19_OrderDeterminism ==
    Motor =>
        /\ pc \in AfterParseAuthors =>
              authors_info = SequentialAuthors(author_links)
        /\ pc \in AfterParseQuotes =>
              quotes_info = SequentialQuotes(pages)
        /\ pc \in {"upload_author_data", "upload_quotes_data", "done"} =>
              /\ authors_data = SequentialAuthors(author_links)
              /\ quotes_data = SequentialQuotes(pages)
        /\ pc \in {"done", "aborted"} =>
              db = SequentialUploadQuotes(
                       SequentialUploadAuthors(before, authors_data),
                       quotes_data, run)

\* C19 witness: the motor run has ended with quotes stored, after a profile
\* gather and a quote-page gather that both completed last fetch first.
C19_Witness ==
    /\ Motor
    /\ pc = "done"
    /\ WrittenNow # {}
    /\ Len(author_links) = 2
    /\ Len(pages) = 2
    /\ arrived = <<2, 1>>
    /\ authors_data[1] # authors_data[2]
    /\ quotes_data[1] # quotes_data[2]

\* The stored quotes with the given text.
QuotesOfText(store, text) ==
    {k \in 1..Len(store.quotes) : store.quotes[k].quote = text}

====
